---------------------------- MODULE Spec2Model ----------------------------
(***************************************************************************)
(* Model of the task service in src/app/app_orm.py: the pydantic schemas   *)
(* TaskCreate / TaskUpdate (request validation), the tasks table, and the  *)
(* handlers create_task, update_task, delete_task, get_task and get_tasks. *)
(*                                                                         *)
(* Conventions.                                                            *)
(*  - A string is a sequence of one-character strings.                     *)
(*  - An Optional value is a sequence of length at most one: None is <<>>  *)
(*    (JSON null / SQL NULL / Python None) and Some(v) is <<v>>.           *)
(*  - A request payload is a function whose DOMAIN is the set of fields    *)
(*    present in the JSON object (pydantic's fields_set); each value is an *)
(*    Optional, so "absent", "present and null" and "present with a value" *)
(*    are three different things, as they are for dict(exclude_unset=True).*)
(*  - A handler is an operator from the store (and the request) to a       *)
(*    record [status, tasks, ret]: the HTTP status the handler produces,   *)
(*    the store after the request and the value the handler returns.       *)
(*    Serialisation of the returned value by the framework is not part of  *)
(*    the model.                                                           *)
(*  - datetime.now() is a clock that every reading advances: two requests  *)
(*    never read the same instant.                                         *)
(***************************************************************************)
EXTENDS Integers, Sequences, FiniteSets, TLC

VARIABLES
    tasks,      \* the tasks table: id -> row
    clock,      \* the last instant datetime.now() returned
    deleted,    \* history: ids of rows that were deleted at some point
    modified,   \* history: ids of stored rows an update has committed on
    prev,       \* history: the tasks table before the last request
    req,        \* the last request
    resp        \* its outcome: [status, ret]

vars == <<tasks, clock, deleted, modified, prev, req, resp>>

-----------------------------------------------------------------------------
(* Optional values *)

None == <<>>

Some(v) == <<v>>

IsNone(o) == o = <<>>

Val(o) == o[1]

-----------------------------------------------------------------------------
(* Strings *)

\* The printable ASCII characters in code order, from 32 (space) to 126
\* (the double quote, the backslash and the backtick are spelled out).
Ascii ==
    << " ", "!", "dquote", "#", "$", "%", "&", "'", "(", ")", "*", "+", ",", "-",
       ".", "/", "0", "1", "2", "3", "4", "5", "6", "7", "8", "9", ":", ";",
       "<", "=", ">", "?", "@", "A", "B", "C", "D", "E", "F", "G", "H", "I",
       "J", "K", "L", "M", "N", "O", "P", "Q", "R", "S", "T", "U", "V", "W",
       "X", "Y", "Z", "[", "bslash", "]", "^", "_", "btick", "a", "b", "c", "d", "e",
       "f", "g", "h", "i", "j", "k", "l", "m", "n", "o", "p", "q", "r", "s",
       "t", "u", "v", "w", "x", "y", "z", "{", "|", "}", "~" >>

CodeOf == [c \in {Ascii[i] : i \in 1..Len(Ascii)} |->
              31 + (CHOOSE i \in 1..Len(Ascii) : Ascii[i] = c)]

Code(c) == CodeOf[c]

Lower(c) == IF Code(c) >= 65 /\ Code(c) <= 90 THEN Ascii[Code(c) + 32 - 31] ELSE c

IsDigit(c) == Code(c) >= 48 /\ Code(c) <= 57

Digit(c) == Code(c) - 48

Rep(c, n) == [i \in 1..n |-> c]

IsSpace(c) == c = " "

RECURSIVE LStrip(_)
LStrip(s) == IF s # <<>> /\ IsSpace(s[1]) THEN LStrip(Tail(s)) ELSE s

RECURSIVE RStrip(_)
RStrip(s) ==
    IF s # <<>> /\ IsSpace(s[Len(s)]) THEN RStrip(SubSeq(s, 1, Len(s) - 1)) ELSE s

\* str.strip(): drop the leading and the trailing whitespace.
Strip(s) == RStrip(LStrip(s))

\* Comparison of two strings as SQLite's BINARY collation compares TEXT.
RECURSIVE StrLess(_, _)
StrLess(a, b) ==
    IF b = <<>> THEN FALSE
    ELSE IF a = <<>> THEN TRUE
    ELSE IF Code(a[1]) # Code(b[1]) THEN Code(a[1]) < Code(b[1])
    ELSE StrLess(Tail(a), Tail(b))

StrLeq(a, b) == a = b \/ StrLess(a, b)

-----------------------------------------------------------------------------
(* datetime.fromisoformat(v.replace('Z', '+00:00')) *)

RECURSIVE ReplaceZ(_)
ReplaceZ(s) ==
    IF s = <<>> THEN <<>>
    ELSE IF s[1] = "Z" THEN <<"+", "0", "0", ":", "0", "0">> \o ReplaceZ(Tail(s))
    ELSE <<s[1]>> \o ReplaceZ(Tail(s))

Num2(s, i) == 10 * Digit(s[i]) + Digit(s[i + 1])

Num4(s, i) == 100 * Num2(s, i) + Num2(s, i + 2)

IsLeap(y) == (y % 4 = 0 /\ y % 100 # 0) \/ y % 400 = 0

DaysInMonth(y, m) ==
    IF m = 2 THEN (IF IsLeap(y) THEN 29 ELSE 28)
    ELSE IF m \in {4, 6, 9, 11} THEN 30 ELSE 31

DateOk(s) ==
    /\ \A i \in {1, 2, 3, 4, 6, 7, 9, 10} : IsDigit(s[i])
    /\ s[5] = "-" /\ s[8] = "-"
    /\ Num4(s, 1) >= 1
    /\ Num2(s, 6) \in 1..12
    /\ Num2(s, 9) >= 1 /\ Num2(s, 9) <= DaysInMonth(Num4(s, 1), Num2(s, 6))

\* HH:MM starting at position i, HH below `hours`.
HourMinOk(s, i, hours) ==
    /\ \A j \in {i, i + 1, i + 3, i + 4} : IsDigit(s[j])
    /\ s[i + 2] = ":"
    /\ Num2(s, i) < hours /\ Num2(s, i + 3) < 60

TimeOk(s) ==
    /\ HourMinOk(s, 12, 24)
    /\ s[17] = ":" /\ IsDigit(s[18]) /\ IsDigit(s[19]) /\ Num2(s, 18) < 60

\* The strings fromisoformat parses, among YYYY-MM-DD, YYYY-MM-DD?HH:MM:SS
\* and YYYY-MM-DD?HH:MM:SS+HH:MM (? is any one character).
FromIsoFormatOk(s) ==
    \/ Len(s) = 10 /\ DateOk(s)
    \/ Len(s) = 19 /\ DateOk(s) /\ TimeOk(s)
    \/ Len(s) = 25 /\ DateOk(s) /\ TimeOk(s) /\ s[20] \in {"+", "-"}
                   /\ HourMinOk(s, 21, 24)

validate_due_date(v) == FromIsoFormatOk(ReplaceZ(v))

-----------------------------------------------------------------------------
(* The pydantic schemas *)

MinTitleLen == 3

MaxTitleLen == 200

MaxDetailsLen == 1000

Fields == {"title", "details", "is_done", "priority", "due_date"}

Has(p, f) == f \in DOMAIN p

\* Field(min_length=3, max_length=200) sees the string as sent; the validator
\* then strips it and checks the length again.
TitleOk(v) ==
    /\ Len(v) >= MinTitleLen
    /\ Len(v) <= MaxTitleLen
    /\ Len(Strip(v)) >= 3

PriorityOk(v) == v >= 1 /\ v <= 3 /\ v \in {1, 2, 3}

\* TaskBase.validate_details: strip, and the empty string becomes None.
NormDetails(o) ==
    IF IsNone(o) THEN None
    ELSE IF Strip(Val(o)) = <<>> THEN None ELSE Some(Strip(Val(o)))

\* TaskCreate accepts the payload.
ValidTaskCreate(p) ==
    /\ Has(p, "title") /\ ~IsNone(p["title"]) /\ TitleOk(Val(p["title"]))
    /\ Has(p, "details") /\ ~IsNone(p["details"])
          => Len(Val(p["details"])) <= MaxDetailsLen
    /\ Has(p, "is_done") => ~IsNone(p["is_done"])
    /\ Has(p, "priority") => ~IsNone(p["priority"]) /\ PriorityOk(Val(p["priority"]))
    /\ Has(p, "due_date") /\ ~IsNone(p["due_date"])
          => validate_due_date(Val(p["due_date"]))

\* The TaskCreate object of a payload it accepts: defaults for the absent
\* fields, the validators' return values for the others.
TaskCreate(p) ==
    [ title    |-> Strip(Val(p["title"])),
      details  |-> IF Has(p, "details") THEN NormDetails(p["details"]) ELSE None,
      is_done  |-> IF Has(p, "is_done") THEN Val(p["is_done"]) ELSE FALSE,
      priority |-> IF Has(p, "priority") THEN Val(p["priority"]) ELSE 1,
      due_date |-> IF Has(p, "due_date") THEN p["due_date"] ELSE None ]

\* TaskUpdate accepts the payload: every field is Optional, so null passes.
ValidTaskUpdate(p) ==
    /\ Has(p, "title") /\ ~IsNone(p["title"]) => TitleOk(Val(p["title"]))
    /\ Has(p, "details") /\ ~IsNone(p["details"])
          => Len(Val(p["details"])) <= MaxDetailsLen
    /\ Has(p, "priority") /\ ~IsNone(p["priority"])
          => Val(p["priority"]) >= 1 /\ Val(p["priority"]) <= 3
    /\ Has(p, "due_date") /\ ~IsNone(p["due_date"])
          => validate_due_date(Val(p["due_date"]))

\* task_update.dict(exclude_unset=True): the fields present, with the values
\* the TaskUpdate validators return (the title stripped, the rest as sent).
UpdateData(p) ==
    [f \in DOMAIN p |->
        IF f = "title" /\ ~IsNone(p[f]) THEN Some(Strip(Val(p[f]))) ELSE p[f]]

-----------------------------------------------------------------------------
(* The tasks table and the handlers that write it *)

\* A row of the table. title, details, priority, due_date and updated_at are
\* Optionals (the column may hold NULL); is_done is 0 or 1.
Row(title, details, is_done, priority, due_date, created_at, updated_at) ==
    [ title |-> title, details |-> details, is_done |-> is_done,
      priority |-> priority, due_date |-> due_date,
      created_at |-> created_at, updated_at |-> updated_at ]

\* title and created_at are nullable=False: a commit of a row that holds
\* NULL there raises IntegrityError.
NotNullOk(row) == ~IsNone(row.title)

Max(S) == CHOOSE x \in S : \A y \in S : y <= x

\* The id of an inserted row. The column is an INTEGER PRIMARY KEY, for which
\* SQLAlchemy's SQLite dialect emits no AUTOINCREMENT keyword: SQLite gives
\* the new row one more than the largest id in the table.
NewId(ts) == IF DOMAIN ts = {} THEN 1 ELSE Max(DOMAIN ts) + 1

Outcome(status, ts, ret, queried) ==
    [status |-> status, tasks |-> ts, ret |-> ret, queried |-> queried]

Insert(ts, id, row) == [i \in DOMAIN ts \cup {id} |-> IF i = id THEN row ELSE ts[i]]

Remove(ts, id) == [i \in DOMAIN ts \ {id} |-> ts[i]]

\* POST /tasks
create_task(ts, p, now) ==
    IF ~ValidTaskCreate(p) THEN Outcome(422, ts, <<>>, FALSE)
    ELSE LET task == TaskCreate(p)
             row  == Row(Some(task.title), task.details,
                         IF task.is_done THEN 1 ELSE 0,
                         Some(task.priority), task.due_date, now, None)
         IN  Outcome(201, Insert(ts, NewId(ts), row), <<NewId(ts)>>, TRUE)

\* Mutant of ApplyUpdate: the loop runs over task_update.dict(), which holds
\* None for every field the payload does not carry.
ApplyUpdateAllFields(row, data, now) ==
    LET new(f) == IF Has(data, f) THEN data[f] ELSE None
    IN  Row(IF Has(data, "title") THEN data["title"] ELSE row.title,
            new("details"),
            IF Has(data, "is_done") /\ ~IsNone(data["is_done"]) /\ Val(data["is_done"])
            THEN 1 ELSE 0,
            new("priority"), new("due_date"), row.created_at, Some(now))

\* Mutant of ApplyUpdate: updated_at is set inside the loop, so an empty
\* payload leaves it as it was.
ApplyUpdateStampInLoop(row, data, now) ==
    LET new(f) == IF Has(data, f) THEN data[f] ELSE row[f]
    IN  Row(new("title"), new("details"),
            IF Has(data, "is_done")
            THEN (IF ~IsNone(data["is_done"]) /\ Val(data["is_done"]) THEN 1 ELSE 0)
            ELSE row.is_done,
            new("priority"), new("due_date"), row.created_at,
            IF DOMAIN data = {} THEN row.updated_at ELSE Some(now))

\* The loop of update_task over update_data.items(), and the new updated_at.
ApplyUpdate(row, data, now) ==
    LET new(f) == IF Has(data, f) THEN data[f] ELSE row[f]
    IN  Row(new("title"), new("details"),
            IF Has(data, "is_done")
            THEN (IF ~IsNone(data["is_done"]) /\ Val(data["is_done"]) THEN 1 ELSE 0)
            ELSE row.is_done,
            new("priority"), new("due_date"), row.created_at, Some(now))

\* Mutant of update_task: the handler checks the fields one by one while it
\* applies them, so the valid fields of a rejected payload are written.
update_task_checks_late(ts, id, p, now) ==
    LET good == {f \in DOMAIN p : ValidTaskUpdate([g \in {f} |-> p[g]])}
        part == [f \in good |-> p[f]]
    IN  IF id \notin DOMAIN ts THEN Outcome(404, ts, <<>>, TRUE)
        ELSE LET row == ApplyUpdate(ts[id], UpdateData(part), now)
             IN  IF ~NotNullOk(row) THEN Outcome(500, ts, <<>>, TRUE)
                 ELSE IF good # DOMAIN p THEN Outcome(422, Insert(ts, id, row), <<>>, TRUE)
                 ELSE Outcome(200, Insert(ts, id, row), <<id>>, TRUE)

\* PUT /tasks/{task_id}. The body is validated before the handler runs.
update_task(ts, id, p, now) ==
    IF ~ValidTaskUpdate(p) THEN Outcome(422, ts, <<>>, FALSE)
    ELSE IF id \notin DOMAIN ts THEN Outcome(404, ts, <<>>, TRUE)
    ELSE LET row == ApplyUpdate(ts[id], UpdateData(p), now)
         IN  IF NotNullOk(row) THEN Outcome(200, Insert(ts, id, row), <<id>>, TRUE)
             ELSE Outcome(500, ts, <<>>, TRUE)

\* Mutant of delete_task: the commit after db.delete is missing, and the
\* session's close rolls the deletion back.
delete_task_no_commit(ts, id) ==
    IF id \notin DOMAIN ts THEN Outcome(404, ts, <<>>, TRUE)
    ELSE Outcome(204, ts, <<>>, TRUE)

\* DELETE /tasks/{task_id}
delete_task(ts, id) ==
    IF id \notin DOMAIN ts THEN Outcome(404, ts, <<>>, TRUE)
    ELSE Outcome(204, Remove(ts, id), <<>>, TRUE)

\* GET /tasks/{task_id}
get_task(ts, id) ==
    IF id \notin DOMAIN ts THEN Outcome(404, ts, <<>>, TRUE)
    ELSE Outcome(200, ts, <<id>>, TRUE)

-----------------------------------------------------------------------------
(* GET /tasks: filters, sorting, pagination *)

DefaultOffset == 0

DefaultLimit == 10

MaxLimit == 100

\* Mutant of SortFields: every column of the table is accepted.
SortFieldsAnyColumn ==
    {"created_at", "due_date", "priority", "title", "details", "is_done", "id"}

SortFields == {"created_at", "due_date", "priority"}

Orders == {"asc", "desc"}

\* The value of a query parameter, or its default when it is not given.
Param(p, name, default) == IF IsNone(p[name]) THEN default ELSE Val(p[name])

\* Query(..., ge=, le=): the framework rejects the request with 422.
QueryOk(p) ==
    /\ ~IsNone(p.priority) => Val(p.priority) >= 1 /\ Val(p.priority) <= 3
    /\ ~IsNone(p.offset) => Val(p.offset) >= 0
    /\ ~IsNone(p.limit) => Val(p.limit) >= 1 /\ Val(p.limit) <= MaxLimit

\* SQLite's LIKE: % matches any run of characters, _ any one character, and
\* ASCII letters match without regard to case.
RECURSIVE Like(_, _)
Like(pat, s) ==
    IF pat = <<>> THEN s = <<>>
    ELSE IF pat[1] = "%" THEN Like(Tail(pat), s) \/ (s # <<>> /\ Like(pat, Tail(s)))
    ELSE /\ s # <<>>
         /\ pat[1] = "_" \/ Lower(pat[1]) = Lower(s[1])
         /\ Like(Tail(pat), Tail(s))

\* column.contains(q): column LIKE '%' || q || '%'; NULL LIKE ... is not true.
Contains(col, q) == ~IsNone(col) /\ Like(<<"%">> \o q \o <<"%">>, Val(col))

\* The WHERE clause get_tasks builds. A filter is added when its parameter
\* is truthy (is_done: when it is not None).
Matches(row, p) ==
    /\ (~IsNone(p.q) /\ Val(p.q) # <<>>)
          => Contains(row.title, Val(p.q)) \/ Contains(row.details, Val(p.q))
    /\ ~IsNone(p.is_done)
          => row.is_done = (IF Val(p.is_done) THEN 1 ELSE 0)
    /\ (~IsNone(p.priority) /\ Val(p.priority) # 0)
          => ~IsNone(row.priority) /\ Val(row.priority) = Val(p.priority)
    /\ (~IsNone(p.due_before) /\ Val(p.due_before) # <<>>)
          => ~IsNone(row.due_date) /\ StrLeq(Val(row.due_date), Val(p.due_before))
    /\ (~IsNone(p.due_after) /\ Val(p.due_after) # <<>>)
          => ~IsNone(row.due_date) /\ StrLeq(Val(p.due_after), Val(row.due_date))

Filtered(ts, p) == {i \in DOMAIN ts : Matches(ts[i], p)}

\* The ORDER BY column of a row, as an Optional.
SortKey(row, sort) ==
    IF sort = "created_at" THEN Some(row.created_at)
    ELSE IF sort = "due_date" THEN row.due_date
    ELSE row.priority

\* SQLite's order of two values of a column: NULL is below every value,
\* integers compare as numbers and text compares bytewise.
KeyLess(a, b, sort) ==
    IF IsNone(b) THEN FALSE
    ELSE IF IsNone(a) THEN TRUE
    ELSE IF sort = "due_date" THEN StrLess(Val(a), Val(b))
    ELSE Val(a) < Val(b)

\* Row i may not come after row j in ORDER BY sort order.
Before(ts, i, j, sort, order) ==
    IF order = "desc"
    THEN KeyLess(SortKey(ts[j], sort), SortKey(ts[i], sort), sort)
    ELSE KeyLess(SortKey(ts[i], sort), SortKey(ts[j], sort), sort)

\* The sequences in which ORDER BY may deliver the first n of the rows S:
\* rows with equal keys come in an order SQL leaves open.
RECURSIVE Orderings(_, _, _, _, _)
Orderings(ts, S, sort, order, n) ==
    IF S = {} \/ n = 0 THEN {<<>>}
    ELSE UNION { { <<m>> \o r : r \in Orderings(ts, S \ {m}, sort, order, n - 1) } :
                 m \in {i \in S : \A j \in S : ~Before(ts, j, i, sort, order)} }

\* Mutant of Paginate: the limit is applied before the offset.
PaginateLimitFirst(rows, offset, limit) ==
    SubSeq(rows, offset + 1, IF limit < Len(rows) THEN limit ELSE Len(rows))

\* query.offset(offset).limit(limit)
Paginate(rows, offset, limit) ==
    SubSeq(rows, offset + 1, IF offset + limit < Len(rows) THEN offset + limit ELSE Len(rows))

\* GET /tasks: the outcomes the request can have.
get_tasks(ts, p) ==
    IF ~QueryOk(p) THEN {Outcome(422, ts, <<>>, FALSE)}
    ELSE IF Param(p, "sort", "created_at") \notin SortFields
         THEN {Outcome(400, ts, <<>>, FALSE)}
    ELSE IF Param(p, "order", "asc") \notin Orders
         THEN {Outcome(400, ts, <<>>, FALSE)}
    ELSE { Outcome(200, ts,
                   Paginate(rows, Param(p, "offset", DefaultOffset),
                            Param(p, "limit", DefaultLimit)),
                   TRUE) :
           rows \in Orderings(ts, Filtered(ts, p),
                              Param(p, "sort", "created_at"),
                              Param(p, "order", "asc"),
                              Param(p, "offset", DefaultOffset)
                                  + Param(p, "limit", DefaultLimit)) }

-----------------------------------------------------------------------------
(* Requests *)

EmptyTable == [i \in {} |-> None]

Request(op, id, arg) == [op |-> op, id |-> id, arg |-> arg]

Init ==
    /\ tasks = EmptyTable
    /\ clock = 0
    /\ deleted = {}
    /\ modified = {}
    /\ prev = EmptyTable
    /\ req = Request("none", 0, <<>>)
    /\ resp = [status |-> 0, ret |-> <<>>, queried |-> FALSE]

\* The request r ends with outcome out, after `ticks` readings of the clock.
Respond(r, out, ticks) ==
    /\ tasks' = out.tasks
    /\ prev' = tasks
    /\ req' = r
    /\ resp' = [status |-> out.status, ret |-> out.ret, queried |-> out.queried]
    /\ clock' = clock + ticks

Create(p) ==
    LET out == create_task(tasks, p, clock + 1)
    IN  /\ Respond(Request("create", 0, p), out, IF out.status = 201 THEN 1 ELSE 0)
        /\ UNCHANGED <<deleted, modified>>

Update(id, p) ==
    LET out == update_task(tasks, id, p, clock + 1)
    IN  /\ Respond(Request("update", id, p), out,
                   IF out.status \in {200, 500} THEN 1 ELSE 0)
        /\ modified' = IF out.status = 200 THEN modified \cup {id} ELSE modified
        /\ UNCHANGED deleted

Delete(id) ==
    LET out == delete_task(tasks, id)
    IN  /\ Respond(Request("delete", id, <<>>), out, 0)
        /\ deleted' = IF out.status = 204 THEN deleted \cup {id} ELSE deleted
        /\ modified' = IF out.status = 204 THEN modified \ {id} ELSE modified

Get(id) ==
    /\ Respond(Request("get", id, <<>>), get_task(tasks, id), 0)
    /\ UNCHANGED <<deleted, modified>>

List(p) ==
    \E out \in get_tasks(tasks, p) :
        /\ Respond(Request("list", 0, p), out, 0)
        /\ UNCHANGED <<deleted, modified>>

-----------------------------------------------------------------------------
(* The requests of Spec *)

\* A payload from a set of <<field, value>> pairs.
Payload(pairs) ==
    [f \in {x[1] : x \in pairs} |-> (CHOOSE x \in pairs : x[1] = f)[2]]

TitleAbc == <<"a", "b", "c">>

TitleXyz == <<"x", "y", "z">>

DetailsD == <<"d">>

Due2025 == <<"2", "0", "2", "5", "-", "1", "2", "-", "3", "1">>

NotADate == <<"s", "o", "o", "n">>

\* The table holds at most MaxTasks rows and the clock is read at most
\* MaxClock times.
MaxTasks == 2

MaxClock == 3

Room(cap) == Cardinality(DOMAIN tasks) < cap

Ids == 1..(MaxTasks + 1)

CreatePayloads ==
    { Payload({<<"title", Some(TitleAbc)>>}),
      Payload({<<"title", Some(TitleAbc)>>, <<"details", Some(DetailsD)>>,
               <<"is_done", Some(TRUE)>>, <<"priority", Some(3)>>,
               <<"due_date", Some(Due2025)>>}),
      Payload({<<"title", Some(<<"a", "b">>)>>, <<"priority", Some(3)>>}),
      Payload({<<"title", Some(TitleAbc)>>, <<"priority", Some(5)>>}),
      Payload({<<"title", Some(TitleAbc)>>, <<"due_date", Some(NotADate)>>}),
      Payload({<<"details", Some(DetailsD)>>}) }

\* The empty payload, each field alone, all of them, and payloads with a
\* null or an invalid value beside valid ones.
UpdatePayloads ==
    { Payload({}),
      Payload({<<"title", Some(TitleXyz)>>}),
      Payload({<<"details", Some(DetailsD)>>}),
      Payload({<<"is_done", Some(TRUE)>>}),
      Payload({<<"priority", Some(3)>>}),
      Payload({<<"due_date", Some(Due2025)>>}),
      Payload({<<"title", Some(TitleXyz)>>, <<"details", Some(DetailsD)>>,
               <<"is_done", Some(TRUE)>>, <<"priority", Some(3)>>,
               <<"due_date", Some(Due2025)>>}),
      Payload({<<"priority", None>>}),
      Payload({<<"title", None>>, <<"priority", Some(2)>>}),
      Payload({<<"details", None>>, <<"is_done", None>>, <<"due_date", None>>}),
      Payload({<<"title", Some(<<"a", "b">>)>>, <<"priority", Some(2)>>}),
      Payload({<<"title", Some(TitleXyz)>>, <<"priority", Some(5)>>}),
      Payload({<<"is_done", Some(FALSE)>>, <<"due_date", Some(NotADate)>>}) }

NoParams ==
    [ q |-> None, is_done |-> None, priority |-> None, due_before |-> None,
      due_after |-> None, sort |-> None, order |-> None, offset |-> None,
      limit |-> None ]

Next ==
    \/ \E p \in CreatePayloads : Room(MaxTasks) /\ clock < MaxClock /\ Create(p)
    \/ \E id \in Ids, p \in UpdatePayloads : clock < MaxClock /\ Update(id, p)
    \/ \E id \in Ids : Delete(id)
    \/ \E id \in Ids : Get(id)
    \/ List(NoParams)

Spec == Init /\ [][Next]_vars

-----------------------------------------------------------------------------
(* Claims about create, update, delete and get, checked under Spec *)

Stored(ts, i) == i \in DOMAIN ts

\* C1: an update of a stored task leaves every field that is absent from
\* the payload as it was, keeps the task's id and created_at, and an update
\* that is applied leaves updated_at non-null, whatever fields it carried.
C1_UpdateKeepsAbsentFields ==
    (req.op = "update" /\ Stored(prev, req.id)) =>
        /\ DOMAIN tasks = DOMAIN prev
        /\ \A f \in Fields \ DOMAIN req.arg : tasks[req.id][f] = prev[req.id][f]
        /\ tasks[req.id].created_at = prev[req.id].created_at
        /\ \A i \in DOMAIN prev \ {req.id} : tasks[i] = prev[i]
        /\ resp.status = 200 => ~IsNone(tasks[req.id].updated_at)

\* An update that carries only the priority has changed it on a task whose
\* title, details and due_date are set.
C1_Witness ==
    /\ req.op = "update" /\ resp.status = 200 /\ Stored(prev, req.id)
    /\ DOMAIN req.arg = {"priority"}
    /\ tasks[req.id].priority # prev[req.id].priority
    /\ ~IsNone(tasks[req.id].details) /\ ~IsNone(tasks[req.id].due_date)
    /\ tasks[req.id].is_done = 1
    /\ IsNone(prev[req.id].updated_at)

\* C3: a get or a second delete that follows a successful delete of the same
\* id ends 404 and leaves the table as it is, and so does the delete of an id
\* that was never stored.
C3_DeleteThenNotFound ==
    [][ /\ ( /\ req.op = "delete" /\ resp.status = 204
             /\ req'.op \in {"get", "delete"} /\ req'.id = req.id )
           => resp'.status = 404 /\ tasks' = tasks
        /\ ( /\ req'.op = "delete"
             /\ req'.id \notin DOMAIN tasks \cup deleted )
           => resp'.status = 404 /\ tasks' = tasks ]_vars

\* A delete has ended 404 on an id that an earlier delete removed.
C3_Witness ==
    /\ req.op = "delete" /\ resp.status = 404
    /\ req.id \in deleted /\ ~Stored(tasks, req.id)
    /\ tasks # EmptyTable

\* C4: the id of a deleted row is never given to a later row.
C4_IdsNeverReused == DOMAIN tasks \cap deleted = {}

\* C8: a create or an update that ends in the 422 validation error leaves
\* the table as it was.
C8_NoPartialWrites ==
    (req.op \in {"create", "update"} /\ resp.status = 422) => tasks = prev

\* An update of a stored task was rejected for its priority while its title
\* was valid.
C8_Witness ==
    /\ req.op = "update" /\ resp.status = 422 /\ Stored(prev, req.id)
    /\ Has(req.arg, "title") /\ ~IsNone(req.arg["title"])
    /\ TitleOk(Val(req.arg["title"]))
    /\ Has(req.arg, "priority")
    /\ prev[req.id].title # Some(Strip(Val(req.arg["title"])))

\* C9: a stored task has updated_at = NULL exactly when no update has been
\* applied to it since it was created.
C9_UpdatedAtNullIffNeverUpdated ==
    \A i \in DOMAIN tasks : IsNone(tasks[i].updated_at) <=> i \notin modified

\* An update with an empty payload was applied to a task that had never been
\* updated, beside a task that still has not been.
C9_Witness ==
    /\ req.op = "update" /\ resp.status = 200 /\ DOMAIN req.arg = {}
    /\ Stored(prev, req.id) /\ IsNone(prev[req.id].updated_at)
    /\ ~IsNone(tasks[req.id].updated_at)
    /\ \E i \in DOMAIN tasks : IsNone(tasks[i].updated_at)

\* C10: every stored task has a priority in {1, 2, 3}.
C10_PriorityInRange ==
    \A i \in DOMAIN tasks :
        ~IsNone(tasks[i].priority) /\ Val(tasks[i].priority) \in {1, 2, 3}

\* C11: an update of an id that is not stored ends 404 whatever the payload
\* is, also when the payload fails the field validation (a 2-character
\* title, a priority of 5), and leaves the table as it was.
C11_UpdateAbsentIs404 ==
    (req.op = "update" /\ ~Stored(prev, req.id)) =>
        resp.status = 404 /\ tasks = prev

-----------------------------------------------------------------------------
(* Titles: create under SpecTitle *)

Spaces(n) == Rep(" ", n)

\* Titles around both length limits, bare and inside whitespace.
Titles ==
    { <<"a", "b">>, TitleAbc, Spaces(3),
      Spaces(1) \o TitleAbc \o Spaces(2),
      Spaces(2) \o <<"a", "b">> \o Spaces(1),
      Rep("x", MaxTitleLen - 1), Rep("x", MaxTitleLen), Rep("x", MaxTitleLen + 1),
      Rep("x", MaxTitleLen - 1) \o Spaces(1),
      Rep("x", MaxTitleLen - 1) \o Spaces(2),
      Spaces(1) \o Rep("x", MaxTitleLen),
      Spaces(1) \o Rep("x", MaxTitleLen + 1) }

TitlePayloads ==
    { Payload({<<"title", Some(t)>>}) : t \in Titles }
    \cup { Payload({<<"title", Some(t)>>, <<"details", Some(DetailsD)>>,
                    <<"priority", Some(2)>>}) : t \in Titles }

NextTitle ==
    \/ \E p \in TitlePayloads : Room(MaxTasks) /\ clock < MaxClock /\ Create(p)
    \/ \E id \in Ids : Delete(id)
    \/ \E id \in Ids : Get(id)

SpecTitle == Init /\ [][NextTitle]_vars

\* C2: a create whose other fields are valid stores the stripped title when
\* its length is in 3..200, and ends in the 422 validation error, with no row
\* added, when it is not.
C2_CreateJudgesTrimmedTitle ==
    (req.op = "create" /\ Has(req.arg, "title") /\ ~IsNone(req.arg["title"])) =>
        LET t == Strip(Val(req.arg["title"]))
        IN  IF Len(t) >= 3 /\ Len(t) <= 200
            THEN /\ resp.status = 201
                 /\ DOMAIN tasks = DOMAIN prev \cup {resp.ret[1]}
                 /\ resp.ret[1] \notin DOMAIN prev
                 /\ tasks[resp.ret[1]].title = Some(t)
            ELSE resp.status = 422 /\ tasks = prev

-----------------------------------------------------------------------------
(* Filters: list under SpecFilter *)

Milk == <<"m", "i", "l", "k">>

Due2026 == <<"2", "0", "2", "6", "-", "0", "1", "-", "0", "1">>

FilterCreatePayloads ==
    { Payload({<<"title", Some(Milk)>>}),
      Payload({<<"title", Some(<<"t", "e", "a">>)>>,
               <<"details", Some(<<"M", "i", "l", "k">>)>>,
               <<"is_done", Some(TRUE)>>, <<"priority", Some(3)>>,
               <<"due_date", Some(Due2025)>>}),
      Payload({<<"title", Some(<<"t", "e", "a">>)>>,
               <<"details", Some(<<"i", "c", "e">>)>>,
               <<"priority", Some(3)>>, <<"due_date", Some(Due2026)>>}),
      Payload({<<"title", Some(Milk)>>, <<"is_done", Some(TRUE)>>,
               <<"due_date", Some(Due2025)>>}) }

FilterParams ==
    { [NoParams EXCEPT !.q = q, !.is_done = d, !.priority = pr,
                       !.due_before = b, !.due_after = a] :
        q  \in {None, Some(<<>>), Some(<<"m", "i">>), Some(<<"_">>)},
        d  \in {None, Some(TRUE), Some(FALSE)},
        pr \in {None, Some(3)},
        b  \in {None, Some(<<>>), Some(Due2025)},
        a  \in {None, Some(Due2025)} }

NextFilter ==
    \/ \E p \in FilterCreatePayloads : Room(MaxTasks) /\ clock < MaxClock /\ Create(p)
    \/ \E p \in FilterParams : List(p)

SpecFilter == Init /\ [][NextFilter]_vars

\* q occurs in s, letters compared without regard to case.
IsSubstring(q, s) ==
    \E i \in 0..(Len(s) - Len(q)) :
        \A j \in 1..Len(q) : Lower(s[i + j]) = Lower(q[j])

\* The request supplies the filter: the parameter is given and not empty.
Supplied(o) == ~IsNone(o) /\ Val(o) # <<>>

\* The row satisfies every filter the request supplies.
Satisfies(row, p) ==
    /\ Supplied(p.q) =>
          \/ ~IsNone(row.title) /\ IsSubstring(Val(p.q), Val(row.title))
          \/ ~IsNone(row.details) /\ IsSubstring(Val(p.q), Val(row.details))
    /\ ~IsNone(p.is_done) => row.is_done = (IF Val(p.is_done) THEN 1 ELSE 0)
    /\ ~IsNone(p.priority) => row.priority = p.priority
    /\ Supplied(p.due_before) =>
          ~IsNone(row.due_date) /\ StrLeq(Val(row.due_date), Val(p.due_before))
    /\ Supplied(p.due_after) =>
          ~IsNone(row.due_date) /\ StrLeq(Val(p.due_after), Val(row.due_date))

Elems(seq) == {seq[k] : k \in 1..Len(seq)}

\* C5: a list whose page holds the whole result returns exactly the stored
\* tasks that satisfy every filter supplied, q being a substring of the title
\* or of the details in either case of the letters.
C5_ListReturnsTheMatching ==
    ( /\ req.op = "list" /\ resp.status = 200
      /\ Param(req.arg, "offset", DefaultOffset) = 0
      /\ Param(req.arg, "limit", DefaultLimit) >= Cardinality(DOMAIN tasks) )
    => Elems(resp.ret) = {i \in DOMAIN tasks : Satisfies(tasks[i], req.arg)}

-----------------------------------------------------------------------------
(* Sorting and pagination: list under SpecPage *)

\* The table of SpecPage holds at most MaxPageTasks rows.
MaxPageTasks == 5

PageCreatePayloads ==
    { Payload({<<"title", Some(TitleAbc)>>}),
      Payload({<<"title", Some(TitleAbc)>>, <<"priority", Some(3)>>,
               <<"due_date", Some(Due2025)>>}) }

\* The default sort with offsets and limits around the size of the table;
\* the sorts whose keys tie, in both orders; a filter under pagination;
\* values at and beyond the limits of offset, limit and priority; sort and
\* order values outside the allowed sets, alone and beside valid and invalid
\* values of the others.
PageParams ==
    { [NoParams EXCEPT !.order = o, !.offset = f, !.limit = l] :
        o \in {None, Some("desc")},
        f \in {None, Some(2), Some(5)},
        l \in {None, Some(2)} }
    \cup
    { [NoParams EXCEPT !.sort = Some(s), !.order = o,
                       !.offset = Some(1), !.limit = Some(2)] :
        s \in {"due_date", "priority"}, o \in {None, Some("desc")} }
    \cup
    { [NoParams EXCEPT !.sort = Some("priority"), !.limit = Some(2)],
      [NoParams EXCEPT !.priority = Some(3), !.offset = Some(1), !.limit = Some(1)],
      [NoParams EXCEPT !.sort = Some("created_at"), !.order = Some("asc"),
                       !.offset = Some(0), !.limit = Some(MaxLimit)],
      [NoParams EXCEPT !.limit = Some(0)],
      [NoParams EXCEPT !.limit = Some(MaxLimit + 1)],
      [NoParams EXCEPT !.offset = Some(-1)],
      [NoParams EXCEPT !.priority = Some(4)] }
    \cup
    { [NoParams EXCEPT !.sort = Some("title")],
      [NoParams EXCEPT !.order = Some("up")],
      [NoParams EXCEPT !.sort = Some("title"), !.order = Some("up")],
      [NoParams EXCEPT !.sort = Some("title"), !.order = Some("desc"),
                       !.offset = Some(1), !.limit = Some(2)],
      [NoParams EXCEPT !.sort = Some("priority"), !.order = Some("up"),
                       !.q = Some(<<"a">>), !.is_done = Some(FALSE),
                       !.priority = Some(3), !.due_before = Some(Due2025)],
      [NoParams EXCEPT !.sort = Some("title"), !.limit = Some(0)],
      [NoParams EXCEPT !.order = Some("up"), !.offset = Some(-1)],
      [NoParams EXCEPT !.sort = Some("title"), !.priority = Some(4)] }

NextPage ==
    \/ \E p \in PageCreatePayloads : Room(MaxPageTasks) /\ Create(p)
    \/ \E p \in PageParams : List(p)

SpecPage == Init /\ [][NextPage]_vars

Min2(a, b) == IF a < b THEN a ELSE b

Max2(a, b) == IF a < b THEN b ELSE a

\* C6: a list that succeeds returns the rows at positions offset+1 ..
\* offset+limit of the filtered rows in the requested order (default
\* created_at ascending, offset 0, limit 10): min(limit, max(0, n - offset))
\* distinct filtered rows, in order, the k-th of them having at most
\* offset+k-1 filtered rows strictly before it and at least offset+k not after
\* it; with five tasks created, limit 2 and offset 2 return the 3rd and 4th.
C6_PageOfSortedFiltered ==
    (req.op = "list" /\ resp.status = 200) =>
        LET p      == req.arg
            sort   == Param(p, "sort", "created_at")
            order  == Param(p, "order", "asc")
            offset == Param(p, "offset", 0)
            limit  == Param(p, "limit", 10)
            F      == Filtered(tasks, p)
            ret    == resp.ret
        IN  /\ Len(ret) = Min2(limit, Max2(0, Cardinality(F) - offset))
            /\ \A k \in 1..Len(ret) : ret[k] \in F
            /\ \A k, l \in 1..Len(ret) :
                  k < l => ret[k] # ret[l] /\ ~Before(tasks, ret[l], ret[k], sort, order)
            /\ \A k \in 1..Len(ret) :
                  /\ Cardinality({i \in F : Before(tasks, i, ret[k], sort, order)})
                        <= offset + k - 1
                  /\ Cardinality({i \in F : ~Before(tasks, ret[k], i, sort, order)})
                        >= offset + k
            /\ ( /\ Cardinality(DOMAIN tasks) = 5
                 /\ p = [NoParams EXCEPT !.offset = Some(2), !.limit = Some(2)] )
               => \E a, b \in DOMAIN tasks :
                     /\ ret = <<a, b>>
                     /\ Cardinality({i \in DOMAIN tasks :
                                        tasks[i].created_at < tasks[a].created_at}) = 2
                     /\ Cardinality({i \in DOMAIN tasks :
                                        tasks[i].created_at < tasks[b].created_at}) = 3

\* Five tasks were created and limit 2, offset 2 returned the 3rd and the 4th.
C6_Witness ==
    /\ req.op = "list" /\ resp.status = 200
    /\ Cardinality(DOMAIN tasks) = 5
    /\ req.arg = [NoParams EXCEPT !.offset = Some(2), !.limit = Some(2)]
    /\ resp.ret = <<3, 4>>

BadSortOrOrder(p) ==
    \/ Param(p, "sort", "created_at") \notin {"created_at", "due_date", "priority"}
    \/ Param(p, "order", "asc") \notin {"asc", "desc"}

\* C7 as claimed: a list whose sort or order is outside the allowed sets ends
\* 400, whatever the other parameters are, before any query and with the
\* table unchanged.
C7_BadSortIs400 ==
    (req.op = "list" /\ BadSortOrOrder(req.arg)) =>
        resp.status = 400 /\ ~resp.queried /\ tasks = prev

\* C7 as amended: it ends 400 when the other parameters pass the framework's
\* checks (priority in 1..3, offset >= 0, limit in 1..100) and 422 when one
\* does not; either way before any query and with the table unchanged.
C7_BadSortIs400WhenOthersValid ==
    (req.op = "list" /\ BadSortOrOrder(req.arg)) =>
        /\ resp.status = (IF QueryOk(req.arg) THEN 400 ELSE 422)
        /\ ~resp.queried /\ tasks = prev /\ resp.ret = <<>>

\* A list over a table that holds tasks ended 400 for its sort, with offset,
\* limit and order given and valid.
C7_Witness ==
    /\ req.op = "list" /\ resp.status = 400 /\ tasks # EmptyTable
    /\ req.arg.sort = Some("title") /\ req.arg.order = Some("desc")
    /\ ~IsNone(req.arg.offset) /\ ~IsNone(req.arg.limit)

-----------------------------------------------------------------------------
(* The field rules of update beside those of create: SpecUpdate *)

\* The table of SpecUpdate holds at most MaxUpdateTasks rows.
MaxUpdateTasks == 1

UpdateIds == 1..MaxUpdateTasks

UpdateCreatePayloads == { Payload({<<"title", Some(TitleAbc)>>}) }

\* Values of each validated field: inside and outside its limits, bare and
\* inside whitespace, empty and blank.
FieldValues ==
    [ title    |-> { <<"a", "b">>, Spaces(2) \o <<"a", "b">>,
                     Spaces(1) \o TitleXyz \o Spaces(1),
                     Rep("x", MaxTitleLen + 1) },
      details  |-> { <<>>, Spaces(2), DetailsD, Spaces(1) \o DetailsD \o Spaces(1),
                     Rep("d", MaxDetailsLen + 1) },
      priority |-> { 0, 1, 3, 4 },
      due_date |-> { Due2025, NotADate } ]

\* One validated field alone, and a title and details together.
FieldPayloads ==
    UNION { { Payload({<<f, Some(v)>>}) : v \in FieldValues[f] } :
            f \in DOMAIN FieldValues }
    \cup
    { Payload({<<"title", Some(Spaces(1) \o TitleXyz \o Spaces(1))>>,
               <<"details", Some(DetailsD)>>}) }

NextUpdate ==
    \/ \E p \in UpdateCreatePayloads :
          Room(MaxUpdateTasks) /\ clock < MaxClock /\ Create(p)
    \/ \E id \in UpdateIds, p \in FieldPayloads : clock < MaxClock /\ Update(id, p)
    \/ \E id \in UpdateIds : Delete(id)

SpecUpdate == Init /\ [][NextUpdate]_vars

\* The create payload that carries value o in field f, beside a valid title.
CreateCarrying(f, o) ==
    Payload({x \in {<<"title", Some(TitleAbc)>>} : f # "title"} \cup {<<f, o>>})

\* What POST /tasks does with that payload on an empty table.
CreatedWith(f, o) == create_task(EmptyTable, CreateCarrying(f, o), 0)

\* C12: an update of a stored task whose payload carries values (not nulls)
\* for some of title, details, priority and due_date is accepted exactly
\* when a create accepts each of these values in its field, and it then
\* stores in each field what the create stores: the title trimmed, the
\* details trimmed and NULL when nothing is left.
C12_UpdateRulesAreCreateRules ==
    ( /\ req.op = "update" /\ Stored(prev, req.id)
      /\ DOMAIN req.arg \subseteq DOMAIN FieldValues
      /\ \A f \in DOMAIN req.arg : ~IsNone(req.arg[f]) )
    => /\ resp.status = 200 <=>
             \A f \in DOMAIN req.arg : CreatedWith(f, req.arg[f]).status = 201
       /\ resp.status # 200 => resp.status = 422
       /\ resp.status = 200 =>
             \A f \in DOMAIN req.arg :
                 tasks[req.id][f] = CreatedWith(f, req.arg[f]).tasks[1][f]

-----------------------------------------------------------------------------
(* Rows with equal sort keys: list under SpecTies *)

\* The table of SpecTies holds at most MaxTieTasks rows.
MaxTieTasks == 3

TieLimit == 2

\* Sorts whose keys tie (equal priority; equal or NULL due_date), in both
\* orders, at the successive pages of TieLimit rows, bare and under a filter.
TieParams ==
    { [NoParams EXCEPT !.sort = Some(s), !.order = o,
                       !.offset = Some(k * TieLimit), !.limit = Some(TieLimit)] :
        s \in {"priority", "due_date"}, o \in {None, Some("desc")}, k \in {0, 1} }
    \cup
    { [NoParams EXCEPT !.sort = Some("priority"), !.is_done = Some(FALSE),
                       !.offset = Some(k * TieLimit), !.limit = Some(TieLimit)] :
        k \in {0, 1} }

NextTies ==
    \/ \E p \in PageCreatePayloads : Room(MaxTieTasks) /\ Create(p)
    \/ \E p \in TieParams : List(p)

SpecTies == Init /\ [][NextTies]_vars

\* Two list requests differ in nothing but the offset.
SamePaging(p, q) == [p EXCEPT !.offset = None] = [q EXCEPT !.offset = None]

\* C13: of two successful lists in a row, the table being the same, the
\* second returns the sequence the first returned when the parameters are
\* the same; and when they differ only in the offset, by a multiple of the
\* limit, the two pages share no task, and the pages at offsets 0 and limit
\* hold every matching task when there are at most 2 * limit of them.
C13_ListDeterministicOnTies ==
    [][ ( /\ req.op = "list" /\ resp.status = 200
          /\ req'.op = "list" /\ resp'.status = 200
          /\ tasks' = tasks /\ SamePaging(req.arg, req'.arg) )
        => LET limit == Param(req.arg, "limit", DefaultLimit)
               a     == Param(req.arg, "offset", DefaultOffset)
               b     == Param(req'.arg, "offset", DefaultOffset)
               F     == Filtered(tasks, req.arg)
           IN  /\ a = b => resp'.ret = resp.ret
               /\ (a # b /\ a % limit = 0 /\ b % limit = 0)
                     => Elems(resp.ret) \cap Elems(resp'.ret) = {}
               /\ ({a, b} = {0, limit} /\ Cardinality(F) <= 2 * limit)
                     => Elems(resp.ret) \cup Elems(resp'.ret) = F ]_vars

=============================================================================
